---------------------------- MODULE Spec2Model ----------------------------
(***************************************************************************)
(* Virtual FAT12 block device of src/src/disk.c: the RAM image             *)
(* (disk_buffer), the dirty-page mask, the entry registry, the write       *)
(* gatekeeper (write_sector), the file codec (validate_file), bootstrap    *)
(* (flush_file), and the deferred commit (process /                        *)
(* rewrite_dirty_flash_pages).                                             *)
(*                                                                         *)
(* The image is modelled byte for byte.  To keep it finite the geometry is *)
(* scaled down; every size is derived from SECTOR_SIZE:                    *)
(*                                                                         *)
(*   source                               model                            *)
(*   SECTOR_SIZE            512           SECTOR_SIZE (18)                 *)
(*   sizeof(disk_buffer)    32 sectors    DISK_SECTORS sectors (8)         *)
(*   FAT1 / FAT2 / ROOT     sector 0/1/2  sector 0/1/2 of the buffer       *)
(*   FILE_SECTOR            offset 0x600  offset 3 * SECTOR_SIZE           *)
(*   directory entry        32 bytes      SECTOR_SIZE / 2 bytes            *)
(*     name      bytes 0..10                byte 0                         *)
(*     attribute byte 0x0B                  byte 1                         *)
(*     VOLUME    bytes 0x16..0x19           byte 2                         *)
(*     cluster   bytes 0x1A..0x1B           bytes 3..4                     *)
(*     size      bytes 0x1C..0x1F           bytes 5..8                     *)
(*   sizeof(file_buffer)    16 sectors    2 sectors                        *)
(*   FILE_CHAR_CNT          8192          SECTOR_SIZE + 5                  *)
(*   FILE_ROW_CNT           2048          SECTOR_SIZE / 2 - 1              *)
(*   FILE_ENTRY_CNT         8             FILE_ENTRY_CNT (3)               *)
(*   FLASH_PAGE_SIZE (F1)   2 sectors     2 sectors                        *)
(*   FLASH_PAGE_SIZE (F4)   whole region  whole region                     *)
(*   sizeof(disk_buffer_temp) 572         SECTOR_SIZE + 2                  *)
(*                                                                         *)
(* Sector numbers on the disk (0, 8, 20, 32, 64..), the 16-bit cluster     *)
(* field, the 32-bit size field, the 8/16-bit truncations of the code and  *)
(* the 32-bit tick arithmetic keep their real widths.                      *)
(*                                                                         *)
(* Spec is the device with a host that writes; SpecRead is the device with *)
(* a host that reads any sector at any time around one write; SpecWrite is *)
(* write_sector alone under every kind of sector and payload, transfers of *)
(* two sectors included; SpecRace is process() taken statement by          *)
(* statement with write_sector interrupting it; SpecBoot is init() with    *)
(* default values of any length.                                           *)
(***************************************************************************)
EXTENDS Integers, Sequences, FiniteSets, TLC

\* ------------------------------------------------------------------ bounds
SECTOR_SIZE == 18
DISK_SECTORS == 8
FILE_ENTRY_CNT == 3
MaxWrites == 2
MaxFails == 1

\* --------------------------------------------------------------- constants
SECTOR_CNT == 4096
DATA_FIRST_SECTOR == 64
FLASH_WRITE_DELAY_MS == 500
TickStep == FLASH_WRITE_DELAY_MS \div 2
U16 == 65536
U8 == 256

DISK_SIZE == DISK_SECTORS * SECTOR_SIZE
FAT1_SECTOR == 0
FAT2_SECTOR == SECTOR_SIZE
ROOT_SECTOR == 2 * SECTOR_SIZE
FILE_SECTOR == 3 * SECTOR_SIZE
FILE_SECTOR_SIZE == DISK_SIZE - FILE_SECTOR
DIR_ENTRY_SIZE == SECTOR_SIZE \div 2
DIR_ENTRY_CNT == SECTOR_SIZE \div DIR_ENTRY_SIZE
FILE_BUFFER_SIZE == 2 * SECTOR_SIZE
FILE_CHAR_CNT == SECTOR_SIZE + 5
FILE_ROW_CNT == SECTOR_SIZE \div 2 - 1
PAGE_DIRTY_LEN == 2 * (DISK_SECTORS \div 2)

\* "CONFIG  TXT" in the one-byte name field: 'C'; its lower-case spelling 'c'.
CONFIG_FILENAME == 67
fat_data == <<248, 255, 255, 255, 255, 255>>
VOLUME == 24

\* ----------------------------------------------------------- byte helpers
Min(a, b) == IF a < b THEN a ELSE b

Zeros(n) == [i \in 1..n |-> 0] \o <<>>

Fill(n, b) == [i \in 1..n |-> b] \o <<>>

\* buf[off .. off+len-1], offsets counted from 0 as in C
Slice(buf, off, len) == SubSeq(buf, off + 1, off + len)

\* memcpy(buf + off, bytes, Len(bytes)), for a destination range inside buf
Patch(buf, off, bytes) ==
    SubSeq(buf, 1, off) \o bytes \o SubSeq(buf, off + Len(bytes) + 1, Len(buf))

\* s[i] of a NUL-terminated string kept without its terminator
Byte(s, i) == IF i >= 0 /\ i < Len(s) THEN s[i + 1] ELSE 0

\* the C string at the start of a byte array: the bytes before the first NUL
RECURSIVE CStrLen(_, _)
CStrLen(bytes, i) ==
    IF i >= Len(bytes) \/ bytes[i + 1] = 0 THEN i ELSE CStrLen(bytes, i + 1)

CStr(bytes) == SubSeq(bytes, 1, CStrLen(bytes, 0))

\* snprintf(dst, cap, ...): at most cap-1 characters are stored
Truncate(s, cap) == SubSeq(s, 1, Min(Len(s), cap - 1))

Pad(s, n) == IF Len(s) >= n THEN SubSeq(s, 1, n) ELSE s \o Zeros(n - Len(s))

LE16(bytes, off) == bytes[off + 1] + U8 * bytes[off + 2]

LE32Bytes(m) ==
    << m % U8, (m \div U8) % U8, (m \div U16) % U8, (m \div (U16 * U8)) % U8 >>

Upper(b) == IF b >= 97 /\ b <= 122 THEN b - 32 ELSE b

\* 32-bit unsigned tick values as two 16-bit halves (value = hi * 2^16 + lo)
Tick32(h, l) == [hi |-> h, lo |-> l]

\* a + n modulo 2^32, for 0 <= n < 2^16
Add32(a, n) ==
    Tick32((a.hi + ((a.lo + n) \div U16)) % U16, (a.lo + n) % U16)

\* a - b modulo 2^32
Sub32(a, b) ==
    LET borrow == IF a.lo < b.lo THEN 1 ELSE 0
    IN  Tick32((a.hi - b.hi - borrow + 2 * U16) % U16, (a.lo - b.lo + U16) % U16)

\* a >= n, for 0 <= n < 2^16
Ge32(a, n) == a.hi > 0 \/ a.lo >= n

\* directory entry field offsets (scaled layout, see the table above)
DIR_NAME == 0
DIR_ATTR == 1
DIR_VOLUME == 2
DIR_CLUSTER == 3
DIR_SIZE == 5

MAX_ENTRY_LABEL_LENGTH == 64
MAX_ENTRY_COMMENT_LENGTH == 64

\* ------------------------------------------------------------------- state
VARIABLES
    mode,                 \* build: "F1" (STM32F103xB) or "F4" (STM32F411xE)
    phase,                \* "boot" before init() has run, "run" after
    now,                  \* HAL_GetTick(), 32 bit
    flash,                \* the user data flash region at APP_BASE
    disk_buffer,          \* the Image Buffer
    disk_buffer_temp,     \* staging buffer of write_sector
    page_dirty_mask,
    entry_usage_mask,
    entries,              \* the registry
    parse_buffer,
    pending_flash_write,
    last_write_tick,
    txt_flag,             \* static of write_sector
    appval,               \* the application's value behind each entry's callbacks
    lastOp,               \* history: the operation that produced this state
    flashOps,             \* history: pages erased/programmed by that operation
    idle,                 \* history: ms since the last write_sector or init
    uncommitted,          \* history: buffer sectors changed by accepted writes, not yet programmed
    trip,                 \* history: "canonical" after a clean commit, "written" after the read-back
    committed,            \* history: a process() firing happened and no write_sector since
    dot,                  \* history: progress of a delete-then-overwrite sequence of the host
    vlog,                 \* history: what validate_file did, if that operation ran it
    placed,               \* history: the host moved CONFIG.TXT to another cluster and wrote it there
    pbuffer,              \* the caller's buffer of the last read_sector call
    nWrites, nFails

vars == << mode, phase, now, flash, disk_buffer, disk_buffer_temp, page_dirty_mask,
           entry_usage_mask, entries, parse_buffer, pending_flash_write,
           last_write_tick, txt_flag, appval, lastOp, flashOps, idle, uncommitted,
           trip, committed, dot, vlog, placed, pbuffer, nWrites, nFails >>

Slots == 0 .. (FILE_ENTRY_CNT - 1)

\* ---------------------------------------------------------------- registry
NoEntry ==
    [entry |-> <<>>, comment |-> <<>>, default_value |-> <<>>, has_default |-> FALSE,
     validate |-> "NULL", update |-> FALSE, print |-> FALSE]

\* entries[k].entry[0] != '\0'
Registered(ents, k) == ents[k].entry # <<>>

\* bitRead(entry_usage_mask, i)
bitRead(mask, i) == (mask \div (2 ^ i)) % 2

bitSet(mask, i) == IF bitRead(mask, i) = 1 THEN mask ELSE mask + 2 ^ i

\* get_unused_idx: the first clear bit, or -1 (0xFFFFFFFF as u32)
FreeSlots(mask) == { i \in Slots : bitRead(mask, i) = 0 }

\* a search that hands out the first slot again when none is free
get_unused_idx_Reuse(mask) ==
    IF FreeSlots(mask) = {} THEN 0
    ELSE CHOOSE i \in FreeSlots(mask) : \A j \in FreeSlots(mask) : i <= j

get_unused_idx(mask) ==
    IF FreeSlots(mask) = {} THEN -1
    ELSE CHOOSE i \in FreeSlots(mask) : \A j \in FreeSlots(mask) : i <= j

\* The arguments of the n-th register_entry call of the application:
\* labels "A", "B", ..., defaults "1", "2", ..., comment "#", all callbacks set.
RegArgs(n) ==
    [entry |-> << 65 + n >>, default_val |-> << 49 + n >>, comment |-> << 35 >>,
     validator |-> "digits", updater |-> TRUE, printer |-> TRUE]

StoredEntry(a) ==
    [entry |-> Truncate(a.entry, MAX_ENTRY_LABEL_LENGTH),
     comment |-> Truncate(<< 9 >> \o a.comment \o << 13, 10 >>, MAX_ENTRY_COMMENT_LENGTH),
     default_value |-> a.default_val, has_default |-> TRUE,
     validate |-> a.validator, update |-> a.updater, print |-> a.printer]

\* ------------------------------------------------- application callbacks
IsDigits(v) == Len(v) > 0 /\ \A i \in 1..Len(v) : v[i] >= 48 /\ v[i] <= 57

\* entries[k].validate == NULL || entries[k].validate(value)
ValidateOk(e, v) ==
    CASE e.validate = "NULL" -> TRUE
      [] e.validate = "digits" -> IsDigits(v)
      [] OTHER -> FALSE

\* entries[k].print(parse_buffer[k], FILE_ROW_CNT): "LABEL=<application value>"
PrintLine(e, val) == Truncate(e.entry \o << 61 >> \o val, FILE_ROW_CNT)

\* snprintf(parse_buffer[k], FILE_ROW_CNT, "%s=%s", entry, default ? default : "")
DefaultLine(e) == Truncate(e.entry \o << 61 >> \o e.default_value, FILE_ROW_CNT)

\* memcmp(p, entries[k].entry, entry_len) == 0 && p[entry_len] == '='
StartsWithLabel(bytes, e) ==
    /\ \A i \in 1..Len(e.entry) : Byte(bytes, i - 1) = e.entry[i]
    /\ Byte(bytes, Len(e.entry)) = 61

\* "looks valid": some registered entry's label followed by '=' starts the bytes
LooksLikeConfig(bytes, ents) ==
    \E k \in Slots : Registered(ents, k) /\ StartsWithLabel(bytes, ents[k])

\* -------------------------------------------------------------- directory
\* memory at disk_buffer + off; a read outside disk_buffer yields the byte `wild`
MemAt(buf, off, len, wild) ==
    [i \in 1..len |-> IF off + i >= 1 /\ off + i <= Len(buf) THEN buf[off + i] ELSE wild]
        \o <<>>

DirEntry(buf, n) == Slice(buf, ROOT_SECTOR + n * DIR_ENTRY_SIZE, DIR_ENTRY_SIZE)

DirIndexes == 0 .. (DIR_ENTRY_CNT - 1)

\* directory slots whose upper-cased name is CONFIG_FILENAME
ConfigSlotsUpper(buf) ==
    { n \in DirIndexes : Upper(DirEntry(buf, n)[DIR_NAME + 1]) = CONFIG_FILENAME }

\* directory slots whose name is CONFIG_FILENAME byte for byte
ConfigSlotsRaw(buf) ==
    { n \in DirIndexes : DirEntry(buf, n)[DIR_NAME + 1] = CONFIG_FILENAME }

MinOf(S) == CHOOSE x \in S : \A y \in S : x <= y

\* find_file: NULL, or the pointer FILE_SECTOR + (sector - 2) * SECTOR_SIZE (an offset
\* into disk_buffer here), the low 16 bits of the size, and the directory index
find_file(buf) ==
    IF ConfigSlotsUpper(buf) = {}
    THEN [found |-> FALSE, p_file |-> 0, file_len |-> 0, root_addr |-> 0]
    ELSE LET n == MinOf(ConfigSlotsUpper(buf))
             e == DirEntry(buf, n)
         IN  [found |-> TRUE,
              p_file |-> FILE_SECTOR + (LE16(e, DIR_CLUSTER) - 2) * SECTOR_SIZE,
              file_len |-> LE16(e, DIR_SIZE),
              root_addr |-> n]

get_config_start_cluster(buf) ==
    IF ConfigSlotsUpper(buf) = {} THEN 0
    ELSE LE16(DirEntry(buf, MinOf(ConfigSlotsUpper(buf))), DIR_CLUSTER)

\* -------------------------------------------------------------------- FAT
\* set_fat12_entry on a FAT sector's bytes
set_fat12_entry(fat, cluster, value) ==
    LET offset == cluster + (cluster \div 2)
    IN  IF cluster % 2 = 1
        THEN [fat EXCEPT ![offset + 1] = (fat[offset + 1] % 16) + (value % 16) * 16,
                         ![offset + 2] = (value \div 16) % U8]
        ELSE [fat EXCEPT ![offset + 1] = value % U8,
                         ![offset + 2] = (fat[offset + 2] \div 16) * 16 + ((value \div U8) % 16)]

\* a cluster count rounded down instead of up
clusters_needed_Floor(file_size) ==
    IF file_size \div SECTOR_SIZE = 0 THEN 1 ELSE file_size \div SECTOR_SIZE

clusters_needed(file_size) ==
    IF (file_size + SECTOR_SIZE - 1) \div SECTOR_SIZE = 0 THEN 1
    ELSE (file_size + SECTOR_SIZE - 1) \div SECTOR_SIZE

RECURSIVE ChainFrom(_, _, _)
ChainFrom(fat, i, n) ==
    IF i >= n THEN fat
    ELSE ChainFrom(set_fat12_entry(fat, 2 + i, IF i = n - 1 THEN 4095 ELSE 2 + i + 1),
                   i + 1, n)

\* update_fat_chain: FAT1 rebuilt from its first three bytes, then copied to FAT2
update_fat_chain(buf, file_size) ==
    LET fat0 == Slice(buf, FAT1_SECTOR, 3) \o Zeros(SECTOR_SIZE - 3)
        fat1 == ChainFrom(fat0, 0, clusters_needed(file_size))
    IN  Patch(Patch(buf, FAT1_SECTOR, fat1), FAT2_SECTOR, fat1)

\* ------------------------------------------------------------- file codec
FileRegion(buf) == Slice(buf, FILE_SECTOR, FILE_SECTOR_SIZE)

\* validate_file, source selection: the host's landing address p_file if it looks
\* valid, else FILE_SECTOR if it does, else FILE_SECTOR reloaded from flash
SelectSource(p_file, buf, fl, ents, wild) ==
    LET file_sector_valid ==
            LooksLikeConfig(MemAt(buf, FILE_SECTOR, SECTOR_SIZE, wild), ents)
        p_file_valid ==
            /\ p_file # FILE_SECTOR
            /\ LooksLikeConfig(MemAt(buf, p_file, SECTOR_SIZE, wild), ents)
        reloaded == Patch(buf, FILE_SECTOR, Slice(fl, FILE_SECTOR, FILE_SECTOR_SIZE))
    IN  IF p_file_valid THEN [buf |-> buf, read_source |-> p_file]
        ELSE IF file_sector_valid THEN [buf |-> buf, read_source |-> FILE_SECTOR]
        ELSE IF LooksLikeConfig(MemAt(reloaded, FILE_SECTOR, SECTOR_SIZE, wild), ents)
             THEN [buf |-> reloaded, read_source |-> FILE_SECTOR]
             ELSE [buf |-> reloaded, read_source |-> p_file]

\* file_buffer[i]; file_buffer[sizeof(file_buffer)] lies outside the array
FbByte(fb, i, wild) == IF i < Len(fb) THEN fb[i + 1] ELSE wild

\* the index at which the scan of one line stops: end of buffer, NUL, CRLF or LF
RECURSIVE LineEnd(_, _, _)
LineEnd(fb, i, wild) ==
    IF i >= Len(fb) \/ fb[i + 1] = 0 THEN i
    ELSE IF fb[i + 1] = 13 /\ FbByte(fb, i + 1, wild) = 10 THEN i
    ELSE IF fb[i + 1] = 10 THEN i
    ELSE LineEnd(fb, i + 1, wild)

\* the line split into parse_buffer: at most FILE_ENTRY_CNT lines of at most
\* FILE_ROW_CNT - 1 characters
RECURSIVE ParseLines(_, _, _, _, _)
ParseLines(fb, m, line_idx, rows, wild) ==
    IF line_idx >= FILE_ENTRY_CNT THEN rows
    ELSE LET i == LineEnd(fb, m, wild)
             ended == i >= Len(fb) \/ fb[i + 1] = 0
             line_ending_len == IF ~ended /\ fb[i + 1] = 13 THEN 2 ELSE 1
             text == IF i > m THEN Truncate(SubSeq(fb, m + 1, i), FILE_ROW_CNT) ELSE <<>>
             rows1 == [rows EXCEPT ![line_idx] = text]
         IN  IF ended THEN rows1
             ELSE ParseLines(fb, i + line_ending_len, line_idx + 1, rows1, wild)

EmptyRows == [k \in Slots |-> <<>>]

\* find_comment_start: index of the first "\t#" in the value, or -1
RECURSIVE find_comment_start(_, _)
find_comment_start(value, p) ==
    IF p >= Len(value) THEN -1
    ELSE IF value[p + 1] = 9 /\ Byte(value, p + 1) = 35 THEN p
    ELSE find_comment_start(value, p + 1)

\* the value of a matched line: after "label=", up to the comment, capped
ValueOf(row, e) ==
    LET value_start == SubSeq(row, Len(e.entry) + 2, Len(row))
        c == find_comment_start(value_start, 0)
        value_len == IF c >= 0 THEN c ELSE Len(value_start)
    IN  SubSeq(value_start, 1, Min(value_len, FILE_ROW_CNT - 1))

\* one iteration of the per-entry loop, for a registered entry k
ResolveEntry(k, st, ents) ==
    LET e == ents[k]
        hits == { l \in Slots : st.rows[l] # <<>> /\ StartsWithLabel(st.rows[l], e) }
    IN  IF hits = {}
        THEN [rows |-> [st.rows EXCEPT ![k] = DefaultLine(e)],
              app |-> IF e.update /\ e.has_default
                      THEN [st.app EXCEPT ![k] = e.default_value] ELSE st.app,
              calls |-> IF e.update /\ e.has_default
                        THEN Append(st.calls, << k, e.default_value >>) ELSE st.calls,
              illegal |-> 1]
        ELSE LET value_buffer == ValueOf(st.rows[MinOf(hits)], e)
                 app1 == IF e.update THEN [st.app EXCEPT ![k] = value_buffer] ELSE st.app
             IN  IF ValidateOk(e, value_buffer)
                 THEN [rows |-> IF e.print
                                THEN [st.rows EXCEPT ![k] = PrintLine(e, app1[k])]
                                ELSE st.rows,
                       app |-> app1,
                       calls |-> IF e.update
                                 THEN Append(st.calls, << k, value_buffer >>) ELSE st.calls,
                       illegal |-> st.illegal]
                 ELSE [rows |-> [st.rows EXCEPT ![k] = DefaultLine(e)],
                       app |-> st.app,
                       calls |-> st.calls,
                       illegal |-> 1]

RECURSIVE ResolveAll(_, _, _)
ResolveAll(k, st, ents) ==
    IF k >= FILE_ENTRY_CNT THEN st
    ELSE IF ~Registered(ents, k) THEN ResolveAll(k + 1, st, ents)
    ELSE ResolveAll(k + 1, ResolveEntry(k, st, ents), ents)

\* the capacity test of the rebuild loop
Fits(m, line_len, comment_len) == m + line_len + comment_len < FILE_CHAR_CNT - 1

\* file_content_buffer: each registered entry's line and comment, if it fits
RECURSIVE Rebuild(_, _, _, _)
Rebuild(k, content, rows, ents) ==
    IF k >= FILE_ENTRY_CNT THEN content
    ELSE IF ~Registered(ents, k) THEN Rebuild(k + 1, content, rows, ents)
    ELSE IF Fits(Len(content), Len(rows[k]), Len(ents[k].comment))
         THEN Rebuild(k + 1, content \o rows[k] \o ents[k].comment, rows, ents)
         ELSE Rebuild(k + 1, content, rows, ents)

\* the content copied over the region, what lies behind it left alone
NormalizedRegion_NoClear(old, content) ==
    content \o SubSeq(old, Len(content) + 1, Len(old))

\* memcpy(FILE_SECTOR, file_content_buffer, m), then the rest of the region zeroed
NormalizedRegion(old, content) == content \o Zeros(FILE_SECTOR_SIZE - Len(content))

\* the size field written to the directory entry
SizeField(m) == LE32Bytes(m)

\* page_dirty_mask after validate_file: FAT and root directory marked
DirtyAfterValidate(dirty) == [dirty EXCEPT ![0] = 1, ![1] = 1]

\* what one run of validate_file did: the raw lines it parsed, the update callbacks
\* it made in order (entry index, value) and the value it returned
RunLog(parsed, calls, illegal) ==
    [ran |-> TRUE, parsed |-> parsed, calls |-> calls, illegal |-> illegal]

NoLog == [ran |-> FALSE, parsed |-> EmptyRows, calls |-> <<>>, illegal |-> 0]

validate_file(p_file, root_addr, buf, fl, dirty, ents, app, wild) ==
    LET sel == SelectSource(p_file, buf, fl, ents, wild)
        file_buffer == MemAt(sel.buf, sel.read_source, FILE_BUFFER_SIZE, wild)
        parsed == ParseLines(file_buffer, 0, 0, EmptyRows, wild)
        st == ResolveAll(0, [rows |-> parsed, app |-> app, calls |-> <<>>, illegal |-> 0],
                        ents)
        content == Rebuild(0, <<>>, st.rows, ents)
        m == Len(content)
        dir_entry == ROOT_SECTOR + root_addr * DIR_ENTRY_SIZE
        b1 == Patch(sel.buf, dir_entry + DIR_SIZE, SizeField(m))
        b2 == Patch(b1, dir_entry + DIR_CLUSTER, << 2, 0 >>)
        b3 == update_fat_chain(b2, m)
        b4 == Patch(b3, FILE_SECTOR, NormalizedRegion(FileRegion(b3), content))
    IN  [disk_buffer |-> b4, page_dirty_mask |-> DirtyAfterValidate(dirty),
         parse_buffer |-> st.rows, appval |-> st.app, illegal |-> st.illegal,
         vlog |-> RunLog(parsed, st.calls, st.illegal)]

\* -------------------------------------------------------------- bootstrap
\* snprintf(FILE_SECTOR + m, FILE_SECTOR_SIZE - m, "%s=%s%s", ...): the characters
\* stored followed by the terminating NUL; the return value is the untruncated length
BootLine(e) == e.entry \o << 61 >> \o e.default_value \o e.comment

\* FILE_SECTOR_SIZE - m is a size_t: once m has passed FILE_SECTOR_SIZE it wraps to a
\* size above INT_MAX. A C library either takes it as no limit and stores the whole
\* line at FILE_SECTOR + m, behind disk_buffer, or stores nothing and returns -1
Libcs == { "unbounded", "eoverflow" }

\* over: some call stored bytes behind disk_buffer
RECURSIVE BootLines(_, _, _, _, _, _)
BootLines(k, m, buf, ents, libc, over) ==
    IF k >= FILE_ENTRY_CNT THEN [buf |-> buf, m |-> m, over |-> over]
    ELSE IF ~Registered(ents, k) THEN BootLines(k + 1, m, buf, ents, libc, over)
    ELSE LET cap == FILE_SECTOR_SIZE - m
             line == BootLine(ents[k])
         IN  IF cap > 0
             THEN BootLines(k + 1, m + Len(line),
                            Patch(buf, FILE_SECTOR + m, Truncate(line, cap) \o << 0 >>),
                            ents, libc, over)
             ELSE IF cap = 0
             THEN BootLines(k + 1, m + Len(line), buf, ents, libc, over)
             ELSE IF libc = "unbounded"
             THEN BootLines(k + 1, m + Len(line), buf, ents, libc, TRUE)
             ELSE BootLines(k + 1, m - 1, buf, ents, libc, over)

AllDirty == [i \in 0 .. (PAGE_DIRTY_LEN - 1) |-> 1]

NoneDirty == [i \in 0 .. (PAGE_DIRTY_LEN - 1) |-> 0]

\* flush_file, else branch: no CONFIG.TXT entry in the root directory
Synthesize(ents, libc) ==
    LET z == Zeros(DISK_SIZE)
        b1 == Patch(z, ROOT_SECTOR, << CONFIG_FILENAME, 0 >>)
        b2 == Patch(Patch(b1, FAT1_SECTOR, fat_data), FAT2_SECTOR, fat_data)
        bl == BootLines(0, 0, b2, ents, libc, FALSE)
        b3 == Patch(bl.buf, ROOT_SECTOR + DIR_ATTR, << 0 >>)
        b4 == Patch(b3, ROOT_SECTOR + DIR_VOLUME, << VOLUME >>)
        b5 == Patch(b4, ROOT_SECTOR + DIR_CLUSTER, << 2 >>)
        b6 == Patch(b5, ROOT_SECTOR + DIR_SIZE, LE32Bytes(bl.m))
    IN  update_fat_chain(b6, bl.m)

\* flush_file after load_from_flash
flush_file(buf, fl, dirty, ents, app, pend, last, tick, wild, libc) ==
    LET ff == find_file(buf)
        v == validate_file(ff.p_file, ff.root_addr, buf, fl, dirty, ents, app, wild)
    IN  IF ff.found
        THEN [disk_buffer |-> v.disk_buffer, page_dirty_mask |-> v.page_dirty_mask,
              parse_buffer |-> v.parse_buffer, appval |-> v.appval,
              pending |-> IF v.illegal # 0 THEN TRUE ELSE pend,
              last |-> IF v.illegal # 0 THEN tick ELSE last,
              validated |-> TRUE, vlog |-> v.vlog]
        ELSE [disk_buffer |-> Synthesize(ents, libc), page_dirty_mask |-> AllDirty,
              parse_buffer |-> EmptyRows, appval |-> app,
              pending |-> TRUE, last |-> tick, validated |-> FALSE, vlog |-> NoLog]

\* ------------------------------------------------------------------ flash
FLASH_PAGE_SIZE(md) == IF md = "F1" THEN 2 * SECTOR_SIZE ELSE DISK_SIZE

\* number of pages the F1 loop looks at (16 in the source)
F1_PAGES == DISK_SIZE \div (2 * SECTOR_SIZE)

Outcomes == { "ok", "erase_fail", "program_fail" }

\* erase_flash_page then the write_flash_halfword loop over one page / the region:
\* programmed; erase failed (contents kept); erased but programming failed
ProgramRange(fl, buf, off, len, outcome) ==
    CASE outcome = "ok" -> Patch(fl, off, Slice(buf, off, len))
      [] outcome = "erase_fail" -> fl
      [] OTHER -> Patch(fl, off, Fill(len, 255))

DirtyPagesF1(dirty) == { i \in 0 .. (F1_PAGES - 1) : dirty[i] # 0 }

DirtyPagesF4(dirty) == { i \in 0 .. (PAGE_DIRTY_LEN - 1) : dirty[i] # 0 }

\* the dirty mask after the page chosen for commit has been picked
ClearPicked(dirty, i) == [dirty EXCEPT ![i] = 0]

rewrite_dirty_flash_pages(md, dirty, fl, buf, outcome) ==
    IF md = "F1"
    THEN IF DirtyPagesF1(dirty) = {}
         THEN [page_dirty_mask |-> dirty, flash |-> fl, ops |-> {}]
         ELSE LET i == MinOf(DirtyPagesF1(dirty))
              IN  [page_dirty_mask |-> ClearPicked(dirty, i),
                   flash |-> ProgramRange(fl, buf, i * FLASH_PAGE_SIZE(md),
                                          FLASH_PAGE_SIZE(md), outcome),
                   ops |-> { i }]
    ELSE IF DirtyPagesF4(dirty) = {}
         THEN [page_dirty_mask |-> dirty, flash |-> fl, ops |-> {}]
         ELSE [page_dirty_mask |-> NoneDirty,
               flash |-> ProgramRange(fl, buf, 0, DISK_SIZE, outcome),
               ops |-> { 0 }]

\* ---------------------------------------------------------- block device
BOOT_SEC == Pad(<< 235, 60, 144, 109, 107, 100, 111, 115, 102, 115, 0, 0, 2, 1, 8, 0 >>, SECTOR_SIZE)

\* a data-sector read without the bounds check against FILE_SECTOR_SIZE
read_sector_NoBound(buf, disk_addr) ==
    CASE disk_addr = 0 -> BOOT_SEC
      [] disk_addr = 8 -> Slice(buf, FAT1_SECTOR, SECTOR_SIZE)
      [] disk_addr = 20 -> Slice(buf, FAT2_SECTOR, SECTOR_SIZE)
      [] disk_addr = 32 -> Slice(buf, ROOT_SECTOR, SECTOR_SIZE)
      [] disk_addr >= 64 /\ disk_addr < SECTOR_CNT ->
            MemAt(buf, FILE_SECTOR + (disk_addr - 64) * SECTOR_SIZE, SECTOR_SIZE, 255)
      [] OTHER -> Zeros(SECTOR_SIZE)

read_sector(buf, disk_addr) ==
    CASE disk_addr = 0 -> BOOT_SEC
      [] disk_addr >= 1 /\ disk_addr <= 7 -> Zeros(SECTOR_SIZE)
      [] disk_addr >= 8 /\ disk_addr <= 19 ->
            IF disk_addr = 8 THEN Slice(buf, FAT1_SECTOR, SECTOR_SIZE) ELSE Zeros(SECTOR_SIZE)
      [] disk_addr >= 20 /\ disk_addr <= 31 ->
            IF disk_addr = 20 THEN Slice(buf, FAT2_SECTOR, SECTOR_SIZE) ELSE Zeros(SECTOR_SIZE)
      [] disk_addr >= 32 /\ disk_addr <= 63 ->
            IF disk_addr = 32 THEN Slice(buf, ROOT_SECTOR, SECTOR_SIZE) ELSE Zeros(SECTOR_SIZE)
      [] disk_addr >= 64 /\ disk_addr < SECTOR_CNT ->
            IF (disk_addr - 64) * SECTOR_SIZE + SECTOR_SIZE <= FILE_SECTOR_SIZE
            THEN Slice(buf, FILE_SECTOR + (disk_addr - 64) * SECTOR_SIZE, SECTOR_SIZE)
            ELSE Zeros(SECTOR_SIZE)
      [] OTHER -> Zeros(SECTOR_SIZE)

\* the offset in disk_buffer that read_sector copies SECTOR_SIZE bytes from, or -1
\* when it copies BOOT_SEC or fills the caller's buffer with zeros
read_source(disk_addr) ==
    CASE disk_addr = 8 -> FAT1_SECTOR
      [] disk_addr = 20 -> FAT2_SECTOR
      [] disk_addr = 32 -> ROOT_SECTOR
      [] /\ disk_addr >= 64 /\ disk_addr < SECTOR_CNT
         /\ (disk_addr - 64) * SECTOR_SIZE + SECTOR_SIZE <= FILE_SECTOR_SIZE ->
            FILE_SECTOR + (disk_addr - 64) * SECTOR_SIZE
      [] OTHER -> -1

\* u8 config_filesize = entry[0x1C] | (entry[0x1D] << 8)
ConfigFilesize(entry) == LE16(entry, DIR_SIZE) % U8

\* write_sector, sector 32 whose content differs from the mirror
WriteRoot(data, buf, dirty, txt) ==
    LET b1 == Patch(buf, ROOT_SECTOR, data)
        hits == ConfigSlotsRaw(b1)
        config_filesize == IF hits = {} THEN 0 ELSE ConfigFilesize(DirEntry(b1, MinOf(hits)))
        txt1 == IF hits = {} THEN txt ELSE 1
    IN  IF config_filesize = 0 /\ txt1 = 1
        THEN [disk_buffer |-> b1, txt_flag |-> 0,
              page_dirty_mask |-> [dirty EXCEPT ![1] = 0, ![0] = 0]]
        ELSE [disk_buffer |-> b1, txt_flag |-> txt1,
              page_dirty_mask |-> [dirty EXCEPT ![1] = 1, ![0] = 1]]

\* the dot-file test without its '.' case
is_dot_file_NoDot(data) == data[1] = 0 \/ data[1] = 5

is_dot_file(data) == data[1] = 0 \/ data[1] = 5 \/ (data[1] = 46 /\ data[2] # 0)

\* the gatekeeper's decision for a data sector inside the region
GateAccepts(sector, data, buf, ents) ==
    LET write_cluster == (sector - DATA_FIRST_SECTOR + 2) % U16
        config_cluster == get_config_start_cluster(buf)
        file_sector_has_config == LooksLikeConfig(Slice(buf, FILE_SECTOR, SECTOR_SIZE), ents)
    IN  IF config_cluster > 0 /\ write_cluster = config_cluster THEN TRUE
        ELSE IF write_cluster = 2 THEN LooksLikeConfig(data, ents)
        ELSE IF /\ write_cluster > 2
                /\ write_cluster <= 2 + (FILE_SECTOR_SIZE \div SECTOR_SIZE)
                /\ file_sector_has_config
             THEN ~is_dot_file(data)
             ELSE TRUE

\* page_dirty_mask[(data_offset / FLASH_PAGE_SIZE) + 1]
DataDirtyIndex(md, data_offset) == (data_offset \div FLASH_PAGE_SIZE(md)) + 1

\* one iteration of write_sector's sector loop
WriteOne(sector, data, buf, dirty, txt, ents, md) ==
    LET same == [disk_buffer |-> buf, txt_flag |-> txt, page_dirty_mask |-> dirty]
        data_offset == (sector - 64) * SECTOR_SIZE
    IN  CASE sector >= 8 /\ sector <= 19 ->
                IF sector = 8 /\ data # Slice(buf, FAT1_SECTOR, SECTOR_SIZE)
                THEN [disk_buffer |-> Patch(buf, FAT1_SECTOR, data), txt_flag |-> txt,
                      page_dirty_mask |-> [dirty EXCEPT ![0] = 1]]
                ELSE same
          [] sector >= 20 /\ sector <= 31 ->
                IF sector = 20 /\ data # Slice(buf, FAT2_SECTOR, SECTOR_SIZE)
                THEN [disk_buffer |-> Patch(buf, FAT2_SECTOR, data), txt_flag |-> txt,
                      page_dirty_mask |-> [dirty EXCEPT ![0] = 1]]
                ELSE same
          [] sector >= 32 /\ sector <= 63 ->
                IF sector = 32 /\ data # Slice(buf, ROOT_SECTOR, SECTOR_SIZE)
                THEN WriteRoot(data, buf, dirty, txt)
                ELSE same
          [] sector >= 64 /\ sector < SECTOR_CNT ->
                IF data_offset + SECTOR_SIZE > FILE_SECTOR_SIZE THEN same
                ELSE IF ~GateAccepts(sector, data, buf, ents) THEN same
                ELSE IF data # Slice(buf, FILE_SECTOR + data_offset, SECTOR_SIZE)
                     THEN [disk_buffer |-> Patch(buf, FILE_SECTOR + data_offset, data),
                           txt_flag |-> txt,
                           page_dirty_mask |->
                               [dirty EXCEPT ![DataDirtyIndex(md, data_offset)] = 1]]
                     ELSE same
          [] OTHER -> same

\* ------------------------------------------------------------ host inputs
\* "LABEL=value\t#\r\n" and "LABEL=value\n"
LineCRLF(label, value) == << label, 61 >> \o value \o << 9, 35, 13, 10 >>

LineLF(label, value) == << label, 61 >> \o value \o << 10 >>

\* the first sector of a file as the host writes it to sector 64
FirstSector(text) == SubSeq(text \o Zeros(SECTOR_SIZE), 1, SECTOR_SIZE)

\* the canonical file with A edited; a file with two longer values and no line for
\* the last entry, whose lines no longer all fit; a file
\* with a value the validator rejects; a file whose lines are not in registry order
TextEdit ==
    FirstSector(LineCRLF(65, << 51 >>) \o LineCRLF(66, << 50 >>) \o LineCRLF(67, << 51 >>))

TextLong ==
    FirstSector(LineLF(65, << 52, 53, 54, 55, 56 >>) \o LineLF(66, << 50, 51, 52, 53, 54 >>))

TextBad == FirstSector(LineLF(65, << 120 >>) \o LineLF(66, << 51 >>) \o LineLF(67, << 52 >>))

TextSwap == FirstSector(LineLF(66, << 53 >>) \o LineLF(65, << 52 >>) \o LineLF(67, << 54 >>))

\* a file the host wrote afresh, with a value for every entry
TextPlaced == FirstSector(LineLF(65, << 52 >>) \o LineLF(66, << 53 >>) \o LineLF(67, << 54 >>))

\* host metadata: a deleted-entry marker, a dot file, plain continuation bytes
Meta05 == Pad(<< 5, 95, 67 >>, SECTOR_SIZE)

MetaDot == Pad(<< 46, 95, 67 >>, SECTOR_SIZE)

Plain == Pad(<< 90, 90 >>, SECTOR_SIZE)

\* a root-directory sector with one field of one entry replaced
SetName(root, n, b) == Patch(root, n * DIR_ENTRY_SIZE + DIR_NAME, << b >>)

SetCluster(root, n, c) == Patch(root, n * DIR_ENTRY_SIZE + DIR_CLUSTER, << c % U8, c \div U8 >>)

SetSize(root, n, sz) == Patch(root, n * DIR_ENTRY_SIZE + DIR_SIZE, LE32Bytes(sz))

DotEntry(c) == Pad(<< 46, 2, 0, c % U8, c \div U8, 4, 0, 0, 0 >>, DIR_ENTRY_SIZE)

\* the first sector past the data region, and its cluster: SECTOR_TO_CLUSTER
PAST_REGION == 64 + (FILE_SECTOR_SIZE \div SECTOR_SIZE)

PAST_CLUSTER == PAST_REGION - 64 + 2

RootPayloads(buf) ==
    LET cur == Slice(buf, ROOT_SECTOR, SECTOR_SIZE)
    IN  { SetName(cur, 0, 229),                    \* CONFIG.TXT deleted
          SetSize(cur, 0, 0),                      \* size 0
          Patch(cur, DIR_ENTRY_SIZE, DotEntry(3)), \* a dot file added
          SetCluster(cur, 0, 3),                   \* CONFIG.TXT moved to cluster 3
          SetCluster(cur, 0, PAST_CLUSTER) }       \* CONFIG.TXT moved past the region

FatPayloads(buf, off) == { set_fat12_entry(Slice(buf, off, SECTOR_SIZE), 3, 4095) }

\* FAT1 as a host leaves it after clearing the media descriptor byte
FatNoMedia(buf) == [Slice(buf, FAT1_SECTOR, SECTOR_SIZE) EXCEPT ![1] = 0]

WriteAddrs == { 8, 20, 32, 64, 65, PAST_REGION }

Payloads(buf, addr) ==
    CASE addr = 8 -> FatPayloads(buf, FAT1_SECTOR) \cup { FatNoMedia(buf) }
      [] addr = 20 -> FatPayloads(buf, FAT2_SECTOR)
      [] addr = 32 -> RootPayloads(buf)
      [] addr = 64 -> { TextEdit, TextLong, TextBad, TextSwap, Meta05 }
      [] addr = 65 -> { Plain, TextPlaced }
      [] OTHER -> { TextPlaced }

\* bytes an out-of-bounds read may return
Wild == { 0, 65 }

\* ----------------------------------------------------------------- history
Op(name, addr, fired, validated, failed) ==
    [op |-> name, addr |-> addr, fired |-> fired, validated |-> validated, failed |-> failed]

\* buffer sectors (units of SECTOR_SIZE) covered by the programmed pages
SectorsOfPages(md, pages) ==
    { sct \in 0 .. (DISK_SECTORS - 1) :
        \E pg \in pages : (sct * SECTOR_SIZE) \div FLASH_PAGE_SIZE(md) = pg }

\* the buffer sector a host sector lands in, if any
BufferSector(addr) ==
    CASE addr = 8 -> 0
      [] addr = 20 -> 1
      [] addr = 32 -> 2
      [] OTHER -> 3 + (addr - 64)

ChangedSectors(addr, before, after) == IF before = after THEN {} ELSE { BufferSector(addr) }

\* dirty bits that stand for a page of the region
PageBits(md, dirty) == IF md = "F1" THEN DirtyPagesF1(dirty) ELSE DirtyPagesF4(dirty)

\* the payload removes CONFIG.TXT from the directory or gives it size 0
DeletesConfig(data) ==
    \/ \A n \in DirIndexes : Upper(data[n * DIR_ENTRY_SIZE + DIR_NAME + 1]) # CONFIG_FILENAME
    \/ \E n \in DirIndexes :
          /\ Upper(data[n * DIR_ENTRY_SIZE + DIR_NAME + 1]) = CONFIG_FILENAME
          /\ Slice(data, n * DIR_ENTRY_SIZE + DIR_SIZE, 4) = << 0, 0, 0, 0 >>

Defaults(ents) == [k \in Slots |-> ents[k].default_value]

\* a root directory sector whose first entry is CONFIG.TXT with a non-zero size and a
\* starting cluster other than 2
MovesConfig(data) ==
    /\ Upper(data[DIR_NAME + 1]) = CONFIG_FILENAME
    /\ Slice(data, DIR_SIZE, 4) # << 0, 0, 0, 0 >>
    /\ LE16(data, DIR_CLUSTER) # 2

\* ------------------------------------------------------------------ actions
BootTick == Tick32(U16 - 1, U16 - TickStep)

\* the flash region as a configured device holds it: the image synthesized at first
\* boot, edited by the host (TextEdit at sector 64), normalized and committed
ConfiguredFlash ==
    LET ents == [k \in Slots |-> StoredEntry(RegArgs(k))]
        img0 == Synthesize(ents, "eoverflow")
        v == validate_file(FILE_SECTOR, 0, Patch(img0, FILE_SECTOR, TextEdit), img0,
                           NoneDirty, ents, Defaults(ents), 0)
    IN  v.disk_buffer

ErasedFlash == Fill(DISK_SIZE, 255)

Init ==
    /\ mode \in { "F1", "F4" }
    /\ phase = "boot"
    /\ now = BootTick
    /\ flash \in IF mode = "F4" THEN { ErasedFlash, ConfiguredFlash } ELSE { ErasedFlash }
    /\ disk_buffer = Zeros(DISK_SIZE)
    /\ disk_buffer_temp = Zeros(SECTOR_SIZE)
    /\ page_dirty_mask = NoneDirty
    /\ entry_usage_mask = 0
    /\ entries = [k \in Slots |-> NoEntry]
    /\ parse_buffer = EmptyRows
    /\ pending_flash_write = FALSE
    /\ last_write_tick = Tick32(0, 0)
    /\ txt_flag = 0
    /\ appval = [k \in Slots |-> <<>>]
    /\ lastOp = Op("boot", 0, FALSE, FALSE, {})
    /\ flashOps = {}
    /\ idle = 0
    /\ uncommitted = {}
    /\ trip = "none"
    /\ committed = FALSE
    /\ dot = "none"
    /\ vlog = NoLog
    /\ placed = "none"
    /\ pbuffer = Zeros(SECTOR_SIZE)
    /\ nWrites = 0
    /\ nFails = 0

\* register_entry, called by the application before init()
RegisterEntry ==
    /\ phase = "boot"
    /\ lastOp.op # "register_full"
    /\ LET idx == get_unused_idx(entry_usage_mask)
           a == RegArgs(Cardinality(Slots \ FreeSlots(entry_usage_mask)))
       IN  IF idx >= 0 /\ idx < FILE_ENTRY_CNT
           THEN /\ entry_usage_mask' = bitSet(entry_usage_mask, idx)
                /\ entries' = [entries EXCEPT ![idx] = StoredEntry(a)]
                /\ appval' = [appval EXCEPT ![idx] = a.default_val]
                /\ lastOp' = Op("register", idx, FALSE, FALSE, {})
           ELSE /\ UNCHANGED << entry_usage_mask, entries, appval >>
                /\ lastOp' = Op("register_full", 0, FALSE, FALSE, {})
    /\ flashOps' = {}
    /\ UNCHANGED << mode, phase, now, flash, disk_buffer, disk_buffer_temp, page_dirty_mask,
                    parse_buffer, pending_flash_write, last_write_tick, txt_flag, idle,
                    uncommitted, trip, committed, dot, vlog, placed, pbuffer, nWrites,
                    nFails >>

\* init(): load_from_flash, then flush_file
InitDisk ==
    /\ phase = "boot"
    /\ FreeSlots(entry_usage_mask) = {}
    /\ \E wild \in Wild :
       \E libc \in Libcs :
       \E r \in { flush_file(flash, flash, NoneDirty, entries, appval,
                             pending_flash_write, last_write_tick, now, wild, libc) } :
            /\ disk_buffer' = r.disk_buffer
            /\ page_dirty_mask' = r.page_dirty_mask
            /\ parse_buffer' = r.parse_buffer
            /\ appval' = r.appval
            /\ pending_flash_write' = r.pending
            /\ last_write_tick' = r.last
            /\ lastOp' = Op("init", 0, FALSE, r.validated, {})
            /\ vlog' = r.vlog
            /\ placed' = "none"
    /\ phase' = "run"
    /\ flashOps' = {}
    /\ idle' = 0
    /\ uncommitted' = {}
    /\ trip' = "none"
    /\ committed' = FALSE
    /\ dot' = IF lastOp'.validated /\ disk_buffer' = flash /\ appval' # Defaults(entries)
              THEN "armed" ELSE "none"
    /\ UNCHANGED << mode, now, flash, disk_buffer_temp, entry_usage_mask, entries,
                    txt_flag, pbuffer, nWrites, nFails >>

\* write_sector(buff, diskaddr, 1), called from the USB context
WriteSector ==
    /\ phase = "run"
    /\ nWrites < MaxWrites
    /\ \E diskaddr \in WriteAddrs :
       \E buff \in Payloads(disk_buffer, diskaddr) :
       \E r \in { WriteOne(diskaddr, buff, disk_buffer, page_dirty_mask, txt_flag,
                            entries, mode) } :
            /\ disk_buffer_temp' = buff
            /\ disk_buffer' = r.disk_buffer
            /\ page_dirty_mask' = r.page_dirty_mask
            /\ txt_flag' = r.txt_flag
            /\ lastOp' = Op("write", diskaddr, FALSE, FALSE, {})
            /\ uncommitted' = uncommitted \cup ChangedSectors(diskaddr, disk_buffer, r.disk_buffer)
            /\ trip' = "none"
            /\ dot' = CASE dot = "armed" /\ diskaddr = 32 /\ DeletesConfig(buff) -> "deleted"
                        [] dot = "deleted" /\ diskaddr = 64 /\ buff[1] = 5 -> "attacked"
                        [] OTHER -> "none"
            /\ placed' = CASE diskaddr = 32 /\ MovesConfig(buff) -> "moved"
                           [] /\ placed = "moved"
                              /\ diskaddr = 64 + get_config_start_cluster(disk_buffer) - 2
                              /\ LooksLikeConfig(buff, entries) -> "written"
                           [] OTHER -> "none"
    /\ pending_flash_write' = TRUE
    /\ last_write_tick' = now
    /\ flashOps' = {}
    /\ vlog' = NoLog
    /\ idle' = 0
    /\ committed' = FALSE
    /\ nWrites' = nWrites + 1
    /\ UNCHANGED << mode, phase, now, flash, entry_usage_mask, entries, parse_buffer,
                    appval, pbuffer, nFails >>

\* the sectors a host reads and writes back: FAT1, FAT2, root directory, file data
RoundTripAddrs == << 8, 20, 32 >> \o [i \in 1 .. (FILE_SECTOR_SIZE \div SECTOR_SIZE) |-> 63 + i]

\* write_sector(read_sector(a), a, 1) for each address in turn, the sectors having
\* been read from image beforehand
RECURSIVE WriteAll(_, _, _, _, _, _)
WriteAll(addrs, i, image, st, ents, md) ==
    IF i > Len(addrs) THEN st
    ELSE WriteAll(addrs, i + 1, image,
                  WriteOne(addrs[i], read_sector(image, addrs[i]), st.disk_buffer,
                           st.page_dirty_mask, st.txt_flag, ents, md),
                  ents, md)

\* the host writes back every sector exactly as it read it
RoundTrip ==
    /\ phase = "run"
    /\ nWrites < MaxWrites
    /\ \E r \in { WriteAll(RoundTripAddrs, 1, disk_buffer,
                           [disk_buffer |-> disk_buffer, txt_flag |-> txt_flag,
                            page_dirty_mask |-> page_dirty_mask], entries, mode) } :
            /\ disk_buffer' = r.disk_buffer
            /\ page_dirty_mask' = r.page_dirty_mask
            /\ txt_flag' = r.txt_flag
            /\ uncommitted' = uncommitted \cup
                   { sct \in 0 .. (DISK_SECTORS - 1) :
                       Slice(r.disk_buffer, sct * SECTOR_SIZE, SECTOR_SIZE)
                         # Slice(disk_buffer, sct * SECTOR_SIZE, SECTOR_SIZE) }
    /\ disk_buffer_temp' = read_sector(disk_buffer, RoundTripAddrs[Len(RoundTripAddrs)])
    /\ lastOp' = Op("roundtrip", 0, FALSE, FALSE, {})
    /\ trip' = IF trip = "canonical" THEN "written" ELSE "none"
    /\ dot' = "none"
    /\ placed' = "none"
    /\ pending_flash_write' = TRUE
    /\ last_write_tick' = now
    /\ flashOps' = {}
    /\ vlog' = NoLog
    /\ idle' = 0
    /\ committed' = FALSE
    /\ nWrites' = nWrites + 1
    /\ UNCHANGED << mode, phase, now, flash, entry_usage_mask, entries, parse_buffer,
                    appval, pbuffer, nFails >>

\* a commit test that does not wait for the host to go idle
CommitDue_NoDelay(pend, tick, last) == pend

\* pending_flash_write && (HAL_GetTick() - last_write_tick >= FLASH_WRITE_DELAY_MS), u32
CommitDue(pend, tick, last) == pend /\ Ge32(Sub32(tick, last), FLASH_WRITE_DELAY_MS)

\* a commit that leaves the pending flag as it found it
PendingAfterCommit_Kept(pend) == pend

\* pending_flash_write when process() returns from a commit
PendingAfterCommit(pend) == FALSE

\* the buffers as process() leaves them before the flush: validate_file runs only
\* when find_file found CONFIG.TXT with a non-zero file_len
AfterValidate(ff, buf, fl, dirty, ents, rows, app, wild) ==
    IF ff.found /\ ff.file_len > 0
    THEN validate_file(ff.p_file, ff.root_addr, buf, fl, dirty, ents, app, wild)
    ELSE [disk_buffer |-> buf, page_dirty_mask |-> dirty, parse_buffer |-> rows,
          appval |-> app, illegal |-> 0, vlog |-> NoLog]

\* process(), called from the main loop
Process ==
    /\ phase = "run"
    /\ IF CommitDue(pending_flash_write, now, last_write_tick)
       THEN \E wild \in Wild :
            \E ff \in { find_file(disk_buffer) } :
            \E v \in { AfterValidate(ff, disk_buffer, flash, page_dirty_mask, entries,
                                     parse_buffer, appval, wild) } :
            \E outcome \in Outcomes :
            \E r \in { rewrite_dirty_flash_pages(mode, v.page_dirty_mask, flash,
                                                 v.disk_buffer, outcome) } :
                /\ outcome # "ok" => (nFails < MaxFails /\ r.ops # {})
                /\ disk_buffer' = v.disk_buffer
                /\ parse_buffer' = v.parse_buffer
                /\ appval' = v.appval
                /\ vlog' = v.vlog
                /\ placed' = "none"
                /\ page_dirty_mask' = r.page_dirty_mask
                /\ flash' = r.flash
                /\ pending_flash_write' = PendingAfterCommit(pending_flash_write)
                /\ lastOp' = Op("process", 0, TRUE, ff.found /\ ff.file_len > 0,
                                IF outcome = "ok" THEN {} ELSE r.ops)
                /\ flashOps' = r.ops
                /\ uncommitted' = IF outcome = "ok"
                                  THEN uncommitted \ SectorsOfPages(mode, r.ops)
                                  ELSE uncommitted
                /\ trip' = IF /\ ff.found /\ ff.file_len > 0
                              /\ outcome = "ok"
                              /\ r.flash = v.disk_buffer
                              /\ PageBits(mode, r.page_dirty_mask) = {}
                           THEN "canonical" ELSE "none"
                /\ committed' = TRUE
                /\ dot' = IF dot = "attacked" THEN "done"
                          ELSE IF /\ ff.found /\ ff.file_len > 0
                                  /\ r.flash = v.disk_buffer
                                  /\ v.appval # Defaults(entries)
                               THEN "armed" ELSE "none"
                /\ nFails' = IF outcome = "ok" THEN nFails ELSE nFails + 1
       ELSE /\ lastOp' = Op("process", 0, FALSE, FALSE, {})
            /\ flashOps' = {}
            /\ vlog' = NoLog
            /\ UNCHANGED << disk_buffer, parse_buffer, appval, page_dirty_mask, flash,
                            pending_flash_write, uncommitted, trip, committed, dot,
                            placed, nFails >>
    /\ UNCHANGED << mode, phase, now, disk_buffer_temp, entry_usage_mask, entries,
                    last_write_tick, txt_flag, idle, pbuffer, nWrites >>

\* the millisecond tick advances while a commit is pending
Tick ==
    /\ phase = "run"
    /\ pending_flash_write
    /\ idle < FLASH_WRITE_DELAY_MS
    /\ now' = Add32(now, TickStep)
    /\ idle' = idle + TickStep
    /\ lastOp' = Op("tick", 0, FALSE, FALSE, {})
    /\ flashOps' = {}
    /\ vlog' = NoLog
    /\ UNCHANGED << mode, phase, flash, disk_buffer, disk_buffer_temp, page_dirty_mask,
                    entry_usage_mask, entries, parse_buffer, pending_flash_write,
                    last_write_tick, txt_flag, appval, uncommitted, trip, committed,
                    dot, placed, pbuffer, nWrites, nFails >>

\* the sector numbers a host reads: the ends of every range of the sector map, the
\* last sector inside the data region, the first past it, and numbers from
\* SECTOR_CNT on
ReadAddrs ==
    { 0, 1, 7, 8, 9, 19, 20, 21, 31, 32, 33, 63, 64, 65, PAST_REGION - 1, PAST_REGION,
      SECTOR_CNT - 1, SECTOR_CNT, SECTOR_CNT + 1 }

\* a read that goes through the write path's bookkeeping
ReadSector_Marking ==
    /\ \E disk_addr \in ReadAddrs :
            /\ pbuffer' = read_sector(disk_buffer, disk_addr)
            /\ lastOp' = Op("read", disk_addr, FALSE, FALSE, {})
    /\ pending_flash_write' = TRUE
    /\ last_write_tick' = now
    /\ flashOps' = {}
    /\ vlog' = NoLog
    /\ UNCHANGED << mode, phase, now, flash, disk_buffer, disk_buffer_temp, page_dirty_mask,
                    entry_usage_mask, entries, parse_buffer, txt_flag, appval, idle,
                    uncommitted, trip, committed, dot, placed, nWrites, nFails >>

\* read_sector(pbuffer, disk_addr), called from the USB context
ReadSector ==
    /\ \E disk_addr \in ReadAddrs :
            /\ pbuffer' = read_sector(disk_buffer, disk_addr)
            /\ lastOp' = Op("read", disk_addr, FALSE, FALSE, {})
    /\ flashOps' = {}
    /\ vlog' = NoLog
    /\ UNCHANGED << mode, phase, now, flash, disk_buffer, disk_buffer_temp, page_dirty_mask,
                    entry_usage_mask, entries, parse_buffer, pending_flash_write,
                    last_write_tick, txt_flag, appval, idle, uncommitted, trip, committed,
                    dot, placed, nWrites, nFails >>

Next == RegisterEntry \/ InitDisk \/ WriteSector \/ RoundTrip \/ Process \/ Tick

Spec == Init /\ [][Next]_vars

\* the device with a host that reads: any sector at any time, between the
\* registrations, init(), one write_sector call and the commits that follow it
FirstWrite == nWrites = 0 /\ WriteSector

NextRead == RegisterEntry \/ InitDisk \/ FirstWrite \/ Process \/ Tick \/ ReadSector

SpecRead == Init /\ [][NextRead]_vars

\* ------------------------------------------- write_sector, any call
\* sizeof(disk_buffer_temp): (SECTOR_SIZE + 32 + 28) bytes in the source
STAGING_SIZE == SECTOR_SIZE + 2

\* the bytes the staging loop stores past the end of disk_buffer_temp
Spilled(buff) ==
    IF Len(buff) > STAGING_SIZE THEN SubSeq(buff, STAGING_SIZE + 1, Len(buff)) ELSE <<>>

\* what the linker placed behind disk_buffer_temp: an object that is dead during the
\* call (file_buffer), or one that is live (page_dirty_mask)
Victims == { "file_buffer", "page_dirty_mask" }

\* page_dirty_mask after the staging loop
StageOver(dirty, buff, victim) ==
    IF victim = "page_dirty_mask"
    THEN [i \in DOMAIN dirty |->
            IF i < Len(Spilled(buff)) THEN Spilled(buff)[i + 1] ELSE dirty[i]]
    ELSE dirty

\* sector_data = pdisk_buffer_temp + s * SECTOR_SIZE, as memory holds it when
\* iteration s reads it
StagedSector(buff, dirty, victim, s) ==
    [i \in 1 .. SECTOR_SIZE |->
        LET o == s * SECTOR_SIZE + i - 1
        IN  IF /\ victim = "page_dirty_mask"
               /\ o >= STAGING_SIZE
               /\ o - STAGING_SIZE < PAGE_DIRTY_LEN
            THEN dirty[o - STAGING_SIZE]
            ELSE buff[o + 1]] \o <<>>

RECURSIVE SectorLoop(_, _, _, _, _, _, _, _)
SectorLoop(s, length, buff, diskaddr, victim, st, ents, md) ==
    IF s >= length THEN st
    ELSE SectorLoop(s + 1, length, buff, diskaddr, victim,
                    WriteOne(diskaddr + s,
                             StagedSector(buff, st.page_dirty_mask, victim, s),
                             st.disk_buffer, st.page_dirty_mask, st.txt_flag, ents, md),
                    ents, md)

\* write_sector(buff, diskaddr, length)
write_sector(buff, diskaddr, length, victim, buf, dirty, txt, ents, md) ==
    SectorLoop(0, length, buff, diskaddr, victim,
               [disk_buffer |-> buf, txt_flag |-> txt,
                page_dirty_mask |-> StageOver(dirty, buff, victim)],
               ents, md)

\* host metadata: "." followed by NUL, and resource-fork padding
DotNul == Pad(<< 46 >>, SECTOR_SIZE)

ForkPad == Pad(<< 0, 7 >>, SECTOR_SIZE)

\* a size whose low byte is zero
SIZE_256 == U8

AnyAddrs == { 7, 8, 19, 20, 31, 32, 63, 64, 65, PAST_REGION - 1, PAST_REGION, SECTOR_CNT }

\* single-sector payloads, and two-sector payloads at the sectors a host writes in
\* one transfer
AnyPayloads(buf, addr) ==
    LET root == Slice(buf, ROOT_SECTOR, SECTOR_SIZE)
    IN  CASE addr = 8 -> FatPayloads(buf, FAT1_SECTOR)
          [] addr = 20 -> FatPayloads(buf, FAT2_SECTOR)
          [] addr = 32 -> { SetName(root, 0, 229), SetSize(root, 0, 0),
                            SetSize(root, 0, SIZE_256), SetSize(root, 0, SIZE_256 + 1),
                            SetCluster(root, 0, 3),
                            SetCluster(root, 0, 3) \o Plain }
          [] addr = 63 -> { Plain, Plain \o TextPlaced }
          [] addr >= 64 /\ addr < PAST_REGION ->
                { TextPlaced, Plain, Meta05, MetaDot, DotNul, ForkPad }
                \cup (IF addr = 64 THEN { TextPlaced \o Plain } ELSE {})
          [] OTHER -> { Plain }

SectorsChanged(before, after) ==
    { sct \in 0 .. (DISK_SECTORS - 1) :
        Slice(before, sct * SECTOR_SIZE, SECTOR_SIZE) # Slice(after, sct * SECTOR_SIZE, SECTOR_SIZE) }

\* one call write_sector(buff, diskaddr, Len(buff) / SECTOR_SIZE)
WriteCall(diskaddr, buff, victim) ==
    /\ \E r \in { write_sector(buff, diskaddr, Len(buff) \div SECTOR_SIZE, victim,
                               disk_buffer, page_dirty_mask, txt_flag, entries, mode) } :
            /\ disk_buffer_temp' = buff
            /\ disk_buffer' = r.disk_buffer
            /\ page_dirty_mask' = r.page_dirty_mask
            /\ txt_flag' = r.txt_flag
            /\ lastOp' = Op("write", diskaddr, FALSE, FALSE, {})
            /\ uncommitted' = uncommitted \cup SectorsChanged(disk_buffer, r.disk_buffer)
    /\ pending_flash_write' = TRUE
    /\ last_write_tick' = now
    /\ flashOps' = {}
    /\ vlog' = NoLog
    /\ idle' = 0
    /\ committed' = FALSE
    /\ trip' = "none"
    /\ dot' = "none"
    /\ placed' = "none"
    /\ nWrites' = nWrites + 1
    /\ UNCHANGED << mode, phase, now, flash, entry_usage_mask, entries, parse_buffer,
                    appval, pbuffer, nFails >>

WriteAny ==
    /\ phase = "run"
    /\ nWrites < MaxWrites
    /\ \E diskaddr \in AnyAddrs :
       \E buff \in AnyPayloads(disk_buffer, diskaddr) :
       \E victim \in IF Spilled(buff) = <<>> THEN { "file_buffer" } ELSE Victims :
            WriteCall(diskaddr, buff, victim)

NextWrite == RegisterEntry \/ InitDisk \/ WriteAny

SpecWrite == Init /\ [][NextWrite]_vars

\* ------------------------------- process() interleaved with write_sector
\* process() runs in the main loop and write_sector in the USB interrupt, which may
\* preempt process() between any two of its statements. phase records where
\* process() stands: "validate" after it read the pending flag, "flush" after
\* find_file and validate_file, "clear" after rewrite_dirty_flash_pages
InProcess == { "validate", "flush", "clear" }

ProcessEnter ==
    /\ phase = "run"
    /\ CommitDue(pending_flash_write, now, last_write_tick)
    /\ phase' = "validate"
    /\ lastOp' = Op("process", 0, TRUE, FALSE, {})
    /\ flashOps' = {}
    /\ vlog' = NoLog
    /\ UNCHANGED << mode, now, flash, disk_buffer, disk_buffer_temp, page_dirty_mask,
                    entry_usage_mask, entries, parse_buffer, pending_flash_write,
                    last_write_tick, txt_flag, appval, idle, uncommitted, trip,
                    committed, dot, placed, pbuffer, nWrites, nFails >>

ProcessValidate ==
    /\ phase = "validate"
    /\ \E wild \in Wild :
       \E ff \in { find_file(disk_buffer) } :
       \E v \in { AfterValidate(ff, disk_buffer, flash, page_dirty_mask, entries,
                                parse_buffer, appval, wild) } :
            /\ disk_buffer' = v.disk_buffer
            /\ page_dirty_mask' = v.page_dirty_mask
            /\ parse_buffer' = v.parse_buffer
            /\ appval' = v.appval
            /\ vlog' = v.vlog
    /\ phase' = "flush"
    /\ UNCHANGED << mode, now, flash, disk_buffer_temp, entry_usage_mask, entries,
                    pending_flash_write, last_write_tick, txt_flag, lastOp, flashOps,
                    idle, uncommitted, trip, committed, dot, placed, pbuffer, nWrites,
                    nFails >>

ProcessFlush ==
    /\ phase = "flush"
    /\ \E outcome \in Outcomes :
       \E r \in { rewrite_dirty_flash_pages(mode, page_dirty_mask, flash, disk_buffer,
                                            outcome) } :
            /\ outcome # "ok" => (nFails < MaxFails /\ r.ops # {})
            /\ page_dirty_mask' = r.page_dirty_mask
            /\ flash' = r.flash
            /\ flashOps' = r.ops
            /\ uncommitted' = IF outcome = "ok"
                              THEN uncommitted \ SectorsOfPages(mode, r.ops)
                              ELSE uncommitted
            /\ nFails' = IF outcome = "ok" THEN nFails ELSE nFails + 1
    /\ phase' = "clear"
    /\ UNCHANGED << mode, now, disk_buffer, disk_buffer_temp, entry_usage_mask, entries,
                    parse_buffer, pending_flash_write, last_write_tick, txt_flag, appval,
                    lastOp, idle, trip, committed, dot, vlog, placed, pbuffer, nWrites >>

ProcessReturn ==
    /\ phase = "clear"
    /\ pending_flash_write' = PendingAfterCommit(pending_flash_write)
    /\ phase' = "run"
    /\ lastOp' = Op("process", 0, TRUE, vlog.ran, {})
    /\ committed' = TRUE
    /\ UNCHANGED << mode, now, flash, disk_buffer, disk_buffer_temp, page_dirty_mask,
                    entry_usage_mask, entries, parse_buffer, last_write_tick, txt_flag,
                    appval, flashOps, idle, uncommitted, trip, dot, vlog, placed,
                    pbuffer, nWrites, nFails >>

RaceAddrs == { 32, 64, 65 }

RacePayloads(buf, addr) ==
    CASE addr = 32 -> { SetSize(Slice(buf, ROOT_SECTOR, SECTOR_SIZE), 0, SIZE_256 + 1) }
      [] addr = 64 -> { TextEdit }
      [] OTHER -> { Plain }

\* write_sector from the USB interrupt, between two calls of process() or inside one
WriteRace ==
    /\ phase \in { "run" } \cup InProcess
    /\ nWrites < MaxWrites
    /\ \E diskaddr \in RaceAddrs :
       \E buff \in RacePayloads(disk_buffer, diskaddr) :
            WriteCall(diskaddr, buff, "file_buffer")

NextRace ==
    \/ RegisterEntry
    \/ InitDisk
    \/ WriteRace
    \/ Tick
    \/ ProcessEnter
    \/ ProcessValidate
    \/ ProcessFlush
    \/ ProcessReturn

SpecRace == Init /\ [][NextRace]_vars

\* ------------------------------------ init() with long default values
\* default_value is a pointer to a string of the application, of any length. The
\* lengths tried here give lines that fill the data region exactly and lines that
\* pass its end, within what the FAT sector of the scaled image can chain
LongLine == (10 * SECTOR_SIZE) \div FILE_ENTRY_CNT

\* a line is the label, '=', the default and the four bytes of the stored comment
LINE_OVERHEAD == 6

DefaultLens == { 1, (FILE_SECTOR_SIZE % LongLine) - LINE_OVERHEAD, LongLine - LINE_OVERHEAD }

LongArgs(n, len) == [RegArgs(n) EXCEPT !.default_val = Fill(len, 49 + n)]

RegisterLong ==
    /\ phase = "boot"
    /\ FreeSlots(entry_usage_mask) # {}
    /\ \E len \in DefaultLens :
       \E idx \in { get_unused_idx(entry_usage_mask) } :
       \E a \in { LongArgs(Cardinality(Slots \ FreeSlots(entry_usage_mask)), len) } :
            /\ entry_usage_mask' = bitSet(entry_usage_mask, idx)
            /\ entries' = [entries EXCEPT ![idx] = StoredEntry(a)]
            /\ appval' = [appval EXCEPT ![idx] = a.default_val]
            /\ lastOp' = Op("register", idx, FALSE, FALSE, {})
    /\ flashOps' = {}
    /\ UNCHANGED << mode, phase, now, flash, disk_buffer, disk_buffer_temp, page_dirty_mask,
                    parse_buffer, pending_flash_write, last_write_tick, txt_flag, idle,
                    uncommitted, trip, committed, dot, vlog, placed, pbuffer, nWrites,
                    nFails >>

NextBoot == RegisterLong \/ InitDisk

SpecBoot == Init /\ [][NextBoot]_vars

\* ------------------------------------------------------------------ claims
\* the directory entries of a root-directory sector that are in use
NonEmptyEntries(root) ==
    { n \in DirIndexes : Byte(root, n * DIR_ENTRY_SIZE + DIR_NAME) # 0 }

\* exactly one entry in use, named CONFIG.TXT, starting at cluster 2
CanonicalRoot(root) ==
    /\ Cardinality(NonEmptyEntries(root)) = 1
    /\ \A n \in NonEmptyEntries(root) :
          /\ Byte(root, n * DIR_ENTRY_SIZE + DIR_NAME) = CONFIG_FILENAME
          /\ LE16(root, n * DIR_ENTRY_SIZE + DIR_CLUSTER) = 2

\* C1: whenever process() has returned and the pending flag is false, the sector
\* read_sector(32) returns holds exactly one non-empty directory entry, named
\* CONFIG.TXT, with starting cluster 2.
C1_RootCanonicalAfterProcess ==
    (lastOp.op = "process" /\ ~pending_flash_write)
        => CanonicalRoot(read_sector(disk_buffer, 32))

\* file_content_buffer as validate_file would rebuild it from the values the
\* application holds
Serialized(ents, app) ==
    Rebuild(0, <<>>, [k \in Slots |-> PrintLine(ents[k], app[k])], ents)

\* C2: dot-file attack. From a committed canonical image with non-default values,
\* after the host deleted CONFIG.TXT at sector 32 (entry removed or size 0) and then
\* wrote a payload starting with 0x05 to sector 64, the data write is rejected and
\* the next process() firing reinstates CONFIG.TXT at cluster 2 with the values held
\* before the attack.
C2_DotFileAttackRepelled ==
    [][ /\ (dot = "deleted" /\ dot' = "attacked") => disk_buffer' = disk_buffer
        /\ (dot = "attacked" /\ lastOp'.op = "process" /\ lastOp'.fired)
              => /\ CanonicalRoot(read_sector(disk_buffer', 32))
                 /\ appval' = appval
                 /\ SubSeq(read_sector(disk_buffer', 64), 1, Len(Serialized(entries, appval)))
                       = Serialized(entries, appval) ]_vars

\* C3: a write_sector call for sector 64 whose payload does not begin with
\* "<label>=" for any registered entry is rejected: the first sector of the file
\* data region and the dirty bitset are unchanged.
C3_NonLabelWriteRejected ==
    [][ (lastOp'.op = "write" /\ lastOp'.addr = 64
            /\ ~LooksLikeConfig(disk_buffer_temp', entries))
          => /\ Slice(disk_buffer', FILE_SECTOR, SECTOR_SIZE)
                  = Slice(disk_buffer, FILE_SECTOR, SECTOR_SIZE)
             /\ page_dirty_mask' = page_dirty_mask ]_vars

\* C4: an accepted write that changed the Image Buffer is eventually committed.
\* process() flushes only while the pending flag is set, so once process() has
\* returned with the flag false and no flash operation failed, no sector changed
\* by an accepted write is still waiting for its page to be programmed.
C4_AcceptedWritesCommitted ==
    (lastOp.op = "process" /\ ~pending_flash_write /\ nFails = 0) => uncommitted = {}

C6_FailedPageStaysDirty ==
    (lastOp.op = "process" /\ lastOp.failed # {})
        => IF mode = "F1"
           THEN lastOp.failed \subseteq DirtyPagesF1(page_dirty_mask)
           ELSE DirtyPagesF4(page_dirty_mask) # {}

\* C7: after a process() firing that commits without a flash failure, the flash
\* region equals the Image Buffer byte for byte.
C7_FlashEqualsBufferAfterCommit ==
    (lastOp.op = "process" /\ lastOp.fired /\ lastOp.failed = {} /\ flashOps # {})
        => flash = disk_buffer

\* C8: round trip. From a committed canonical state, writing back every sector as
\* read and calling process() after the delay leaves the Image Buffer and flash
\* unchanged: nothing is erased or programmed and no dirty bit remains set.
C8_RoundTripIsNoOp ==
    [][ (trip = "written" /\ lastOp'.op = "process" /\ lastOp'.fired
            /\ lastOp'.failed = {})
          => /\ disk_buffer' = disk_buffer
             /\ flash' = flash
             /\ flashOps' = {}
             /\ PageBits(mode, page_dirty_mask') = {} ]_vars

\* C9: once a process() firing has committed, further process() calls with no
\* write_sector call in between leave flash and the Image Buffer as they were.
C9_CommitIdempotent ==
    [][ (committed /\ lastOp'.op = "process")
          => (flash' = flash /\ disk_buffer' = disk_buffer) ]_vars

\* process() was called again after a commit, with no write in between
C9_Witness == committed /\ lastOp.op = "process" /\ ~lastOp.fired

\* the line of entry k followed by its stored comment
EntryText(k, rows, ents) == rows[k] \o ents[k].comment

\* the lines of all registered entries, in registration order
RECURSIVE AllLines(_, _, _)
AllLines(k, rows, ents) ==
    IF k >= FILE_ENTRY_CNT THEN <<>>
    ELSE IF Registered(ents, k) THEN EntryText(k, rows, ents) \o AllLines(k + 1, rows, ents)
    ELSE AllLines(k + 1, rows, ents)

\* the lines of the registered entries that fit: an entry is emitted when the bytes
\* emitted so far plus its line and comment stay below FILE_CHAR_CNT - 1, and is
\* skipped otherwise
RECURSIVE FittingLines(_, _, _, _)
FittingLines(k, sofar, rows, ents) ==
    IF k >= FILE_ENTRY_CNT THEN sofar
    ELSE IF Registered(ents, k)
            /\ Len(sofar) + Len(EntryText(k, rows, ents)) < FILE_CHAR_CNT - 1
         THEN FittingLines(k + 1, sofar \o EntryText(k, rows, ents), rows, ents)
         ELSE FittingLines(k + 1, sofar, rows, ents)

\* the CONFIG.TXT directory entry records size Len(c), the file data region starts
\* with c and is zero after it
FileIs(c) ==
    /\ find_file(disk_buffer).found
    /\ Slice(DirEntry(disk_buffer, find_file(disk_buffer).root_addr), DIR_SIZE, 4)
          = LE32Bytes(Len(c))
    /\ FileRegion(disk_buffer) = c \o Zeros(FILE_SECTOR_SIZE - Len(c))

Fat12Entry(fat, cluster) ==
    LET o == cluster + (cluster \div 2)
    IN  IF cluster % 2 = 1
        THEN (fat[o + 1] \div 16) + 16 * fat[o + 2]
        ELSE fat[o + 1] + U8 * (fat[o + 2] % 16)

\* the data clusters whose entries lie wholly inside the FAT sector
FatClusters == 2 .. (((2 * SECTOR_SIZE) \div 3) - 1)

\* the size stored in the directory entry of CONFIG.TXT
StoredSize(buf) ==
    LET e == DirEntry(buf, MinOf(ConfigSlotsUpper(buf)))
    IN  e[DIR_SIZE + 1] + U8 * e[DIR_SIZE + 2] + U16 * (e[DIR_SIZE + 3] + U8 * e[DIR_SIZE + 4])

\* the chain 2 -> 3 -> ... -> n+1 -> 0xFFF for n = max(1, ceil(size / sector)), every
\* other entry 0, FAT2 a copy of FAT1
ChainCanonical(buf) ==
    /\ ConfigSlotsUpper(buf) # {}
    /\ LET fat == Slice(buf, FAT1_SECTOR, SECTOR_SIZE)
           size == StoredSize(buf)
           n == IF size <= SECTOR_SIZE THEN 1
                ELSE CHOOSE q \in 1 .. DISK_SECTORS :
                         (q - 1) * SECTOR_SIZE < size /\ size <= q * SECTOR_SIZE
       IN  /\ \A c \in FatClusters :
                Fat12Entry(fat, c) = IF c <= n THEN c + 1 ELSE IF c = n + 1 THEN 4095 ELSE 0
           /\ Slice(buf, FAT2_SECTOR, SECTOR_SIZE) = fat

\* validate_file or the bootstrap synthesis has just run
JustNormalized == lastOp.op = "init" \/ (lastOp.op = "process" /\ lastOp.validated)

\* C11 (as stated): immediately after every run of validate_file and after bootstrap
\* synthesis FAT1 bytes 0..2 are F8 FF FF, clusters 2..n+1 form the chain ended by
\* 0xFFF, every other entry is 0 and FAT2 equals FAT1.
C11_FatCanonical ==
    JustNormalized =>
        /\ ChainCanonical(disk_buffer)
        /\ Slice(disk_buffer, FAT1_SECTOR, 3) = << 248, 255, 255 >>

\* C11 (amended): immediately after every run of validate_file and after bootstrap
\* synthesis the chain, the zero entries and the FAT2 copy are as stated; FAT1 bytes
\* 0..2 are F8 FF FF after bootstrap synthesis and otherwise are the bytes FAT1 held
\* when validate_file started, which it keeps and does not rewrite.
C11_FatChainKeepsReserved ==
    [][ JustNormalized' =>
          /\ ChainCanonical(disk_buffer')
          /\ Slice(disk_buffer', FAT1_SECTOR, 3) =
                IF lastOp'.op = "process" THEN Slice(disk_buffer, FAT1_SECTOR, 3)
                ELSE IF lastOp'.validated THEN Slice(flash, FAT1_SECTOR, 3)
                ELSE << 248, 255, 255 >> ]_vars

\* validate_file has rebuilt a two-cluster chain behind a media byte the host cleared
C11_Witness ==
    /\ lastOp.op = "process" /\ lastOp.validated
    /\ disk_buffer[FAT1_SECTOR + 1] = 0
    /\ Fat12Entry(Slice(disk_buffer, FAT1_SECTOR, SECTOR_SIZE), 2) = 3
    /\ Fat12Entry(Slice(disk_buffer, FAT1_SECTOR, SECTOR_SIZE), 3) = 4095


\* ------------------------------------------------------- C12, C18, C19
\* the raw lines of the file that start with the label of entry k and '='
LinesFor(k) ==
    { l \in Slots : vlog.parsed[l] # <<>> /\ StartsWithLabel(vlog.parsed[l], entries[k]) }

\* the value the host's file gives entry k: that of its first line
HostValue(k) == ValueOf(vlog.parsed[MinOf(LinesFor(k))], entries[k])

\* the host's file has a line for entry k with a value its validator accepts
PresentAndValid(k) == LinesFor(k) # {} /\ ValidateOk(entries[k], HostValue(k))

\* "<label>=<value>"
LabelLine(k, value) == entries[k].entry \o << 61 >> \o value

\* the update callbacks made for entry k, in order
CallsFor(k) == SelectSeq(vlog.calls, LAMBDA c : c[1] = k)

\* C12: in validate_file, an entry with no line in the file or with a rejected value
\* is rendered as "<label>=<default>", the run goes on with the other entries and
\* returns was_repaired = true; if every registered entry is present and passes
\* validation it returns false.
C12_DefaultFallback ==
    vlog.ran =>
        /\ \A k \in Slots :
              ~PresentAndValid(k) =>
                  /\ parse_buffer[k] = LabelLine(k, entries[k].default_value)
                  /\ vlog.illegal = 1
        /\ (\A k \in Slots : PresentAndValid(k)) => vlog.illegal = 0

\* C18: resolution does not depend on line order: when every registered entry has a
\* line with a value its validator accepts, validate_file calls update with the
\* host's value for every entry, renders every entry with the host's value and
\* returns was_repaired = false.
C18_LineOrderIndependent ==
    (vlog.ran /\ \A k \in Slots : PresentAndValid(k)) =>
        /\ vlog.illegal = 0
        /\ \A k \in Slots :
              /\ CallsFor(k) = << << k, HostValue(k) >> >>
              /\ parse_buffer[k] = LabelLine(k, HostValue(k))

\* C19: an entry with a default value and an update callback that falls back to its
\* default gets update(default) exactly once, both when no line matches its label
\* and when its validator rejects the value.
C19_UpdateDefaultOnFallback ==
    vlog.ran =>
        \A k \in Slots :
            (~PresentAndValid(k) /\ entries[k].update /\ entries[k].has_default) =>
                CallsFor(k) = << << k, entries[k].default_value >> >>

\* ---------------------------------------------------------------- C20
\* the lines of the first j registered entries
RECURSIVE FirstLines(_, _, _)
FirstLines(j, rows, ents) ==
    IF j = 0 THEN <<>>
    ELSE FirstLines(j - 1, rows, ents) \o EntryText(j - 1, rows, ents)

\* C20: when the lines of all entries do not fit, the serialized content is the
\* lines of the first j entries for some j: no entry after the first one that does
\* not fit is emitted.
C20_OverflowIsPrefix ==
    lastOp.validated =>
        \E j \in 0 .. FILE_ENTRY_CNT : FileIs(FirstLines(j, parse_buffer, entries))


\* ---------------------------------------------------------------- C13
\* the value the host's payload gives entry k
PayloadValue(data, k) ==
    LET rows == ParseLines(data, 0, 0, EmptyRows, 0)
        hits == { l \in Slots : rows[l] # <<>> /\ StartsWithLabel(rows[l], entries[k]) }
    IN  ValueOf(rows[MinOf(hits)], entries[k])

\* the directory says cluster 2, the FAT chain starts there, and the file at sector
\* 64 holds, entry by entry, the values of the host's payload
NormalizedFrom(buf, data) ==
    /\ get_config_start_cluster(buf) = 2
    /\ Fat12Entry(Slice(buf, FAT1_SECTOR, SECTOR_SIZE), 2) # 0
    /\ LET rows == [k \in Slots |-> LabelLine(k, PayloadValue(data, k))]
       IN  Slice(buf, FILE_SECTOR, Len(AllLines(0, rows, entries)))
              = AllLines(0, rows, entries)

\* C13: after the host moved CONFIG.TXT to a cluster c other than 2 (non-zero size)
\* and wrote valid config content to the data sector of cluster c, the next
\* process() firing leaves the directory entry at cluster 2, a FAT chain starting at
\* cluster 2 and the file, with the host's values, at sector 64.
C13_PlacementNormalized ==
    [][ (placed = "written" /\ lastOp'.op = "process" /\ lastOp'.fired) =>
            NormalizedFrom(disk_buffer', disk_buffer_temp) ]_vars


\* ---------------------------------------------------------------- C14
\* C14: init() on a flash region that holds a valid canonical image whose values all
\* pass validation (validate_file repaired nothing and left the image as it was)
\* returns with every bit of the dirty bitset clear and the pending flag false.
C14_InitLeavesCleanImageClean ==
    (lastOp.op = "init" /\ lastOp.validated /\ vlog.illegal = 0 /\ disk_buffer = flash) =>
        /\ \A i \in DOMAIN page_dirty_mask : page_dirty_mask[i] = 0
        /\ ~pending_flash_write


\* ---------------------------------------------------------------- C15
\* C15: read_sector is pure: for every sector number, in range or not, a call leaves
\* the Image Buffer, the dirty bitset, the pending flag, last_write_tick, the
\* registry and flash unchanged.
C15_ReadIsPure ==
    [][ lastOp'.op = "read" =>
            UNCHANGED << disk_buffer, page_dirty_mask, pending_flash_write, last_write_tick,
                         entries, entry_usage_mask, flash >> ]_vars

\* a sector number past the volume was read while a host write awaited its commit
C15_Witness ==
    /\ lastOp.op = "read"
    /\ lastOp.addr >= SECTOR_CNT
    /\ pending_flash_write
    /\ nWrites > 0

\* ---------------------------------------------------------------- C16
\* the occupied registry slots
Occupied(mask) == { k \in Slots : bitRead(mask, k) = 1 }

\* C16: register_entry returns true while fewer than FILE_ENTRY_CNT entries are
\* registered and false afterwards; a call that returns false leaves all slots
\* unchanged, and no operation overwrites or frees an occupied slot.
C16_RegistryFillsOnce ==
    [][ /\ lastOp'.op = "register" =>
              Cardinality(Occupied(entry_usage_mask)) < FILE_ENTRY_CNT
        /\ lastOp'.op = "register_full" =>
              /\ Cardinality(Occupied(entry_usage_mask)) = FILE_ENTRY_CNT
              /\ UNCHANGED << entries, entry_usage_mask >>
        /\ \A k \in Occupied(entry_usage_mask) :
              /\ k \in Occupied(entry_usage_mask')
              /\ entries'[k] = entries[k] ]_vars

\* a register_entry call was refused
C16_Witness ==
    /\ lastOp.op = "register_full"
    /\ Occupied(entry_usage_mask) = Slots
    /\ \A k \in Slots : Registered(entries, k)

\* ---------------------------------------------------------------- C17
\* the sector map: boot sector, FAT1, FAT2, root directory, the data sectors that
\* lie wholly inside the file data region, zeros everywhere else
SectorMap(buf, s) ==
    IF s = 0 THEN BOOT_SEC
    ELSE IF s = 8 THEN SubSeq(buf, 1, SECTOR_SIZE)
    ELSE IF s = 20 THEN SubSeq(buf, SECTOR_SIZE + 1, 2 * SECTOR_SIZE)
    ELSE IF s = 32 THEN SubSeq(buf, 2 * SECTOR_SIZE + 1, 3 * SECTOR_SIZE)
    ELSE IF s >= 64 /\ s < SECTOR_CNT /\ (s - 63) * SECTOR_SIZE <= FILE_SECTOR_SIZE
         THEN SubSeq(FileRegion(buf), (s - 64) * SECTOR_SIZE + 1, (s - 63) * SECTOR_SIZE)
         ELSE [i \in 1 .. SECTOR_SIZE |-> 0]

\* C17: read_sector returns what the sector map says for the sector, and the bytes
\* it copies from lie inside the Image Buffer.
C17_SectorMap ==
    lastOp.op = "read" =>
        /\ pbuffer = SectorMap(disk_buffer, lastOp.addr)
        /\ \/ read_source(lastOp.addr) = -1
           \/ /\ read_source(lastOp.addr) >= 0
              /\ read_source(lastOp.addr) + SECTOR_SIZE <= Len(disk_buffer)

\* the second sector of the file was read back
C17_Witness ==
    /\ lastOp.op = "read"
    /\ lastOp.addr = 65
    /\ pbuffer # Zeros(SECTOR_SIZE)


\* ---------------------------------------------------------------- C21
\* the dirty bit of the flash page that holds buffer offset off is set; on the
\* large-sector build, where one erase sector holds the whole region, any set bit
\* makes the commit program it
CoveringPageDirty(md, dirty, off) ==
    IF md = "F1" THEN dirty[off \div FLASH_PAGE_SIZE(md)] # 0
    ELSE \E i \in DOMAIN dirty : dirty[i] # 0

\* C21: when write_sector accepts a data sector whose bytes differ from the mirror
\* it copies them to the data region at offset (s-64)*SECTOR_SIZE and sets the dirty
\* bit of the flash page that holds those Image Buffer bytes.
C21_DataWriteMarksCoveringPage ==
    [][ (/\ lastOp'.op = "write"
         /\ lastOp'.addr >= 64
         /\ disk_buffer' # disk_buffer) =>
            LET off == FILE_SECTOR + (lastOp'.addr - 64) * SECTOR_SIZE
            IN  /\ disk_buffer' = Patch(disk_buffer, off, disk_buffer_temp')
                /\ CoveringPageDirty(mode, page_dirty_mask', off) ]_vars


\* ---------------------------------------------------------------- C22
\* the decision table for a data sector inside the region
TableApplies(sector, data, buf, ents) ==
    LET cluster == sector - 62
        config_cluster == get_config_start_cluster(buf)
        canon == LooksLikeConfig(Slice(buf, FILE_SECTOR, SECTOR_SIZE), ents)
        dotty == data[1] = 0 \/ data[1] = 5 \/ (data[1] = 46 /\ data[2] # 0)
    IN  \/ config_cluster > 0 /\ cluster = config_cluster
        \/ cluster = 2 /\ LooksLikeConfig(data, ents)
        \/ cluster > 2 /\ ~(canon /\ dotty)

\* sectors 0-7, 9-19, 21-31, 33-63 and the data sectors past the region
IgnoredSector(s) ==
    \/ s <= 7
    \/ s >= 9 /\ s <= 19
    \/ s >= 21 /\ s <= 31
    \/ s >= 33 /\ s <= 63
    \/ s >= PAST_REGION

SingleSectorWrite == lastOp.op = "write" /\ Len(disk_buffer_temp) = SECTOR_SIZE

ConfigSizeNonZero(buf) ==
    /\ ConfigSlotsRaw(buf) # {}
    /\ Slice(DirEntry(buf, MinOf(ConfigSlotsRaw(buf))), DIR_SIZE, 4) # << 0, 0, 0, 0 >>

\* C23: a root-directory write whose CONFIG.TXT entry has a non-zero size, whatever
\* its low byte, leaves the FAT and root dirty bits set.
C23_NonZeroSizeKeepsDirty ==
    [][ (/\ SingleSectorWrite'
         /\ lastOp'.addr = 32
         /\ disk_buffer' # disk_buffer
         /\ ConfigSizeNonZero(disk_buffer')) =>
            (page_dirty_mask'[0] = 1 /\ page_dirty_mask'[1] = 1) ]_vars

\* ---------------------------------------------------------------- C24
\* C24: every byte the staging copy of a write_sector call stores lies inside
\* disk_buffer_temp, for calls of one sector and of several.
C24_StagingStaysInside ==
    lastOp.op = "write" => Len(disk_buffer_temp) <= STAGING_SIZE


\* ---------------------------------------------------------------- C25
\* the byte ranges << start, length >> validate_file reads through the pointer
\* find_file returned: the probe for "label=" at p_file, and the copy of
\* sizeof(file_buffer) bytes from the source it selects
SourceReads(buf, fl, ents) ==
    LET f == find_file(buf)
    IN  (IF f.p_file # FILE_SECTOR THEN { << f.p_file, 2 >> } ELSE {})
        \cup { << SelectSource(f.p_file, buf, fl, ents, w).read_source, FILE_BUFFER_SIZE >> :
                 w \in Wild }

\* C25: whatever starting cluster the host put in the CONFIG.TXT directory entry,
\* the reads process() makes validate_file do through find_file's pointer start at
\* or after FILE_SECTOR and end inside the Image Buffer.
C25_SourceInsideRegion ==
    [][ (lastOp'.op = "process" /\ lastOp'.validated) =>
            \A rd \in SourceReads(disk_buffer, flash, entries) :
                rd[1] >= FILE_SECTOR /\ rd[1] + rd[2] <= DISK_SIZE ]_vars


\* ---------------------------------------------------------------- C26
\* the latest operation is a write_sector call that ran inside process()
RacedWrite == phase \in InProcess /\ lastOp.op = "write"

\* C26: when a write_sector call ran between process() reading the pending flag and
\* process() returning, then at the return the pending flag is still true or the
\* Image Buffer sector that write changed is in flash.
C26_RacedWriteNotDropped ==
    [][ (RacedWrite /\ phase = "clear" /\ phase' = "run") =>
            \/ pending_flash_write'
            \/ \A sct \in { BufferSector(lastOp.addr) } \cap uncommitted :
                  Slice(flash', sct * SECTOR_SIZE, SECTOR_SIZE)
                    = Slice(disk_buffer', sct * SECTOR_SIZE, SECTOR_SIZE) ]_vars


\* ---------------------------------------------------------------- C27
\* init() found no CONFIG.TXT entry and synthesized the file
Bootstrapped == lastOp.op = "init" /\ ~lastOp.validated

\* the offsets m at which the bootstrap loop calls snprintf, and the final one
RunningOffsets(ents, libc) ==
    { BootLines(0, 0, Zeros(DISK_SIZE),
                [j \in Slots |-> IF j < k THEN ents[j] ELSE NoEntry], libc, FALSE).m :
        k \in 0 .. FILE_ENTRY_CNT }

\* C27: after bootstrap synthesis the running offset never passed the region size
\* (so the remaining-capacity argument never wrapped and nothing was stored behind
\* the Image Buffer), and the directory size field equals the number of bytes
\* stored in the data region and is at most the region capacity.
C27_BootstrapStaysInside ==
    Bootstrapped =>
        LET size == LE16(Slice(disk_buffer, ROOT_SECTOR + DIR_SIZE, 2), 0)
                    + U16 * LE16(Slice(disk_buffer, ROOT_SECTOR + DIR_SIZE + 2, 2), 0)
        IN  /\ size <= FILE_SECTOR_SIZE
            /\ size = CStrLen(FileRegion(disk_buffer), 0)
            /\ \A libc \in Libcs :
               \A m \in RunningOffsets(entries, libc) : m <= FILE_SECTOR_SIZE

=============================================================================
